---- MODULE Spec2Model ----
(***************************************************************************)
(* Model of SimilarityFusion.py (similarity network fusion by cross        *)
(* diffusion): getW, getWCSMSSM, getP, getS, doSimilarityFusionWs and      *)
(* doSimilarityFusion.                                                     *)
(*                                                                         *)
(* Numbers are exact rationals <<n, d>> (d > 0, lowest terms) extended     *)
(* with the IEEE specials numpy produces instead of raising: NaN is        *)
(* <<0, 0>>, +Inf is <<1, 0>>, -Inf is <<-1, 0>>.  Arrays are tuples of    *)
(* rows, indexed from 1 (the source indexes from 0).  numpy arrays and     *)
(* Python lists are objects: the model keeps them in a heap and the        *)
(* program's variables hold references, so that aliasing and in-place      *)
(* operators act on the shared object as they do in the source.            *)
(***************************************************************************)
EXTENDS Integers, Sequences, FiniteSets, TLC

\* ------------------------------------------------------------------------
\* Floating point values
\* ------------------------------------------------------------------------

Abs(n) == IF n < 0 THEN -n ELSE n

Sign(n) == IF n < 0 THEN -1 ELSE IF n > 0 THEN 1 ELSE 0

RECURSIVE Gcd(_, _)
Gcd(a, b) == IF b = 0 THEN a ELSE Gcd(b, a % b)

NaN == <<0, 0>>

Inf(s) == <<s, 0>>

Zero == <<0, 1>>

One == <<1, 1>>

\* The float of integer n: float(n), and the entries of integer arrays.
Num(n) == <<n, 1>>

\* The rational n/d, d # 0, in lowest terms with a positive denominator.
Frac(n, d) ==
    LET g == Gcd(Abs(n), Abs(d))
        s == IF d < 0 THEN -1 ELSE 1
    IN  <<s * (n \div g), s * (d \div g)>>

IsNaN(a) == a = NaN

IsFinite(a) == a[2] # 0

IsZero(a) == a[2] # 0 /\ a[1] = 0

Add(a, b) ==
    IF a = Zero THEN b
    ELSE IF b = Zero THEN a
    ELSE IF IsNaN(a) \/ IsNaN(b) THEN NaN
    ELSE IF ~IsFinite(a) THEN (IF ~IsFinite(b) /\ a # b THEN NaN ELSE a)
    ELSE IF ~IsFinite(b) THEN b
    ELSE IF a[2] = b[2] THEN Frac(a[1] + b[1], a[2])
    ELSE LET g == Gcd(a[2], b[2])
         IN  Frac(a[1] * (b[2] \div g) + b[1] * (a[2] \div g), (a[2] \div g) * b[2])

Neg(a) == <<-a[1], a[2]>>

Mul(a, b) ==
    IF a = One THEN b
    ELSE IF b = One THEN a
    ELSE IF IsNaN(a) \/ IsNaN(b) THEN NaN
    ELSE IF ~IsFinite(a) \/ ~IsFinite(b)
         THEN (IF a[1] = 0 \/ b[1] = 0 THEN NaN ELSE Inf(Sign(a[1]) * Sign(b[1])))
    ELSE IF a[1] = 0 \/ b[1] = 0 THEN Zero
    ELSE LET g1 == Gcd(Abs(a[1]), b[2])
             g2 == Gcd(Abs(b[1]), a[2])
         IN  <<(a[1] \div g1) * (b[1] \div g2), (a[2] \div g2) * (b[2] \div g1)>>

\* numpy's true division: x/0 is +-Inf and 0/0 is NaN, with a warning only.
Div(a, b) ==
    IF IsNaN(a) \/ IsNaN(b) THEN NaN
    ELSE IF ~IsFinite(b) THEN (IF ~IsFinite(a) THEN NaN ELSE Zero)
    ELSE IF ~IsFinite(a) THEN Inf(a[1] * (IF b[1] < 0 THEN -1 ELSE 1))
    ELSE IF b[1] = 0 THEN (IF a[1] = 0 THEN NaN ELSE Inf(Sign(a[1])))
    ELSE Mul(a, Frac(b[2], b[1]))

\* a < b as floats compare: every comparison with NaN is false.
Lt(a, b) ==
    /\ ~IsNaN(a)
    /\ ~IsNaN(b)
    /\ a # b
    /\ IF ~IsFinite(a) THEN a[1] < 0
       ELSE IF ~IsFinite(b) THEN b[1] > 0
       ELSE a[1] * b[2] < b[1] * a[2]

\* The order numpy's sort, partition and argpartition use: NaN sorts last.
SortsBefore(a, b) == IF IsNaN(a) THEN FALSE ELSE IF IsNaN(b) THEN TRUE ELSE Lt(a, b)

\* np.exp(v).  The model's arithmetic is rational, so e^v is evaluated by the
\* second-order expansion e^v = 1/(1 - v + v^2/2) for v <= 0 (1 + v + v^2/2
\* for v > 0): exact at exp(0) = 1, within (0, 1] and strictly increasing on
\* v <= 0, exp(-Inf) = 0, and NaN for NaN, as np.exp is.
Exp(v) ==
    IF IsNaN(v) THEN NaN
    ELSE IF ~IsFinite(v) THEN (IF v[1] < 0 THEN Zero ELSE v)
    ELSE LET y == IF v[1] < 0 THEN Neg(v) ELSE v
             p == Add(One, Add(y, Mul(Frac(1, 2), Mul(y, y))))
         IN  IF v[1] < 0 THEN Div(One, p) ELSE p

\* ------------------------------------------------------------------------
\* Arrays
\* ------------------------------------------------------------------------

Rows(X) == Len(X)

Cols(X) == Len(X[1])

RECURSIVE SumTo(_, _)
\* f[1] + ... + f[n], added left to right.
SumTo(f, n) == IF n = 0 THEN Zero ELSE Add(SumTo(f, n - 1), f[n])

Transpose(X) == [j \in 1..Cols(X) |-> [i \in 1..Rows(X) |-> X[i][j]]]

MatAdd(X, Y) == [i \in 1..Rows(X) |-> [j \in 1..Cols(X) |-> Add(X[i][j], Y[i][j])]]

MatScale(X, c) == [i \in 1..Rows(X) |-> [j \in 1..Cols(X) |-> Mul(X[i][j], c)]]

MatDiv(X, c) == [i \in 1..Rows(X) |-> [j \in 1..Cols(X) |-> Div(X[i][j], c)]]

\* np.zeros((n, n))
Zeros(n) == [i \in 1..n |-> [j \in 1..n |-> Zero]]

\* np.eye(n)
Eye(n) == [i \in 1..n |-> [j \in 1..n |-> IF i = j THEN One ELSE Zero]]

\* np.sum(X, 1)
RowSums(X) == [i \in 1..Rows(X) |-> SumTo(X[i], Cols(X))]

\* Variant of ZeroToOne that leaves a zero row sum as it is.
ZeroToOne_Kept(v) == v

\* RowSum[RowSum == 0] = 1
ZeroToOne(v) == [i \in 1..Len(v) |-> IF IsZero(v[i]) THEN One ELSE v[i]]

\* np.fill_diagonal(X, 0) as a value
FillDiagonal(X) == [i \in 1..Rows(X) |-> [j \in 1..Cols(X) |-> IF i = j THEN Zero ELSE X[i][j]]]

Min(a, b) == IF a < b THEN a ELSE b

Max(a, b) == IF a > b THEN a ELSE b

\* A call's outcome: a returned value, or the exception it raised.
Ok(x) == [err |-> "", val |-> x]

Raise(e) == [err |-> e, val |-> <<>>]

\* np.partition / np.argpartition accept kth in [-n, n) and raise ValueError
\* ("kth out of bounds") otherwise.
KthInBounds(kth, n) == -n <= kth /\ kth < n

\* The number of entries the slice 0:stop keeps of an axis of length n.
SliceLen(stop, n) == IF stop >= 0 THEN Min(stop, n) ELSE Max(n + stop, 0)

\* Position of entry i of row when the row is ordered by SortsBefore, equal
\* entries taken in index order: the number of entries placed before it.
RankAsc(row, i) ==
    Cardinality({j \in 1..Len(row) :
        \/ SortsBefore(row[j], row[i])
        \/ (~SortsBefore(row[i], row[j]) /\ j < i)})

\* The sum of np.partition(row, c)[0:c]: the c smallest entries of row (which
\* entries are kept among equal ones does not change the sum).
SmallestSum(row, c) ==
    SumTo([j \in 1..Len(row) |-> IF RankAsc(row, j) < c THEN row[j] ELSE Zero], Len(row))

\* np.mean of c entries whose sum is s (NaN for no entries, with a warning).
Mean(s, c) == Div(s, Num(c))

\* Mu = 0.5, the default of getW and getWCSMSSM.
Mu == Frac(1, 2)

\* exp(-X^2 / (2 (mu Eps)^2)), the kernel of getW and getWCSMSSM.
Kernel(x, eps, mu) ==
    Exp(Div(Neg(Mul(x, x)), Mul(Num(2), Mul(Mul(mu, eps), Mul(mu, eps)))))

\* ------------------------------------------------------------------------
\* getW: affinity matrix of a distance matrix
\* ------------------------------------------------------------------------

\* Variant of Symmetrized that takes D as it is.
Symmetrized_None(D) == D

\* DSym = 0.5*(D + D.T), a new array.
Symmetrized(D) == MatScale(MatAdd(D, Transpose(D)), Frac(1, 2))

\* MeanDist of getW for DSym (diagonal already zeroed) and K with K+1 in bounds.
MeanDist(DSym, K) ==
    LET n == Rows(DSym)
        c == SliceLen(K + 1, n)
    IN  [i \in 1..n |->
            Div(Mul(Mean(SmallestSum(DSym[i], c), c), Num(K + 1)), Num(K))]

\* W of getW from DSym (diagonal zeroed).
AffinityOf(DSym, K, mu) ==
    LET n == Rows(DSym)
        MD == MeanDist(DSym, K)
        Eps == [i \in 1..n |-> [j \in 1..n |->
                   Div(Add(Add(MD[i], MD[j]), DSym[i][j]), Num(3))]]
    IN  [i \in 1..n |-> [j \in 1..n |-> Kernel(DSym[i][j], Eps[i][j], mu)]]

\* DSym = 0.5*(D + D.T): a new array, D itself is only read (line 22).
SymmetrizeAt(h, d) == [heap |-> Append(h, Symmetrized(h[d])), ref |-> Len(h) + 1]

\* getW on the array h[d]: DSym is allocated, np.fill_diagonal writes into
\* DSym in place, np.partition raises for K+1 out of bounds, and W is a new
\* array.  The outcome holds the heap afterwards and the reference returned.
getWAt(h, d, K, mu) ==
    LET s == SymmetrizeAt(h, d)
        h1 == [s.heap EXCEPT ![s.ref] = FillDiagonal(@)]
    IN  IF ~KthInBounds(K + 1, Rows(h1[s.ref]))
        THEN [err |-> "ValueError", heap |-> h1, ref |-> 0]
        ELSE [err |-> "", heap |-> Append(h1, AffinityOf(h1[s.ref], K, mu)),
              ref |-> Len(h1) + 1]

\* getW as a function of the value of D.
getW(D, K, mu) ==
    LET r == getWAt(<<D>>, 1, K, mu)
    IN  IF r.err # "" THEN Raise(r.err) ELSE Ok(r.heap[r.ref])

\* ------------------------------------------------------------------------
\* getP: full transition matrix
\* ------------------------------------------------------------------------

getP(W, diagRegularize) ==
    IF diagRegularize
    THEN LET WNoDiag == FillDiagonal(W)
             RowSum == ZeroToOne(RowSums(WNoDiag))
         IN  [i \in 1..Rows(W) |-> [j \in 1..Cols(W) |->
                 Add(Mul(Frac(1, 2), Eye(Rows(W))[i][j]),
                     Div(Mul(Frac(1, 2), WNoDiag[i][j]), RowSum[i]))]]
    ELSE LET RowSum == ZeroToOne(RowSums(W))
         IN  [i \in 1..Rows(W) |-> [j \in 1..Cols(W) |-> Div(W[i][j], RowSum[i])]]

\* ------------------------------------------------------------------------
\* getS: transition matrix restricted to the K largest entries of each row
\* ------------------------------------------------------------------------

\* The column sets np.argpartition(-row, c)[0:c] may return: c columns none of
\* which holds a smaller entry than a column left out.  Which of several equal
\* entries are kept is up to the selection algorithm.
TopSets(row, c) ==
    {J \in SUBSET (1..Len(row)) :
        /\ Cardinality(J) = c
        /\ \A a \in J : \A b \in (1..Len(row)) \ J :
              ~SortsBefore(Neg(row[b]), Neg(row[a]))}

RECURSIVE SelectionsTo(_, _, _)
\* Every choice of kept columns for rows 1..k, one set per row.
SelectionsTo(W, c, k) ==
    IF k = 0 THEN {<<>>}
    ELSE {Append(sel, J) : sel \in SelectionsTo(W, c, k - 1), J \in TopSets(W[k], c)}

Selections(W, c) == SelectionsTo(W, c, Rows(W))

\* The choice made by a selection that keeps, among equal entries, the lowest
\* columns (tie = "low") or the highest (tie = "high").
TieSelection(W, c, tie) ==
    [i \in 1..Rows(W) |->
        {a \in 1..Cols(W) :
            Cardinality({b \in 1..Cols(W) :
                \/ SortsBefore(Neg(W[i][b]), Neg(W[i][a]))
                \/ /\ ~SortsBefore(Neg(W[i][a]), Neg(W[i][b]))
                   /\ IF tie = "low" THEN b < a ELSE b > a}) < c}]

\* Variant of SparseOf that normalizes by the sum of the whole row of W.
SparseOf_RowNorm(W, sel) ==
    LET n == Rows(W)
        SNorm == ZeroToOne(RowSums(W))
    IN  [J |-> sel,
         V |-> [i \in 1..n |-> [j \in 1..n |->
                  IF j \in sel[i] THEN Div(W[i][j], SNorm[i]) ELSE Zero]]]

\* The CSR matrix built from (V, (I, J)): S.J[i] are the stored columns of row
\* i, S.V the stored values (zero where nothing is stored).
SparseOf(W, sel) ==
    LET n == Rows(W)
        V == [i \in 1..n |-> [j \in 1..n |-> IF j \in sel[i] THEN W[i][j] ELSE Zero]]
        SNorm == ZeroToOne(RowSums(V))
    IN  [J |-> sel,
         V |-> [i \in 1..n |-> [j \in 1..n |->
                  IF j \in sel[i] THEN Div(W[i][j], SNorm[i]) ELSE Zero]]]

\* getS(W, K) when the selection keeps the column sets sel.
getS(W, K, sel) ==
    IF ~KthInBounds(K, Rows(W)) THEN Raise("ValueError")
    ELSE IF K < 0 THEN Raise("ValueError")
    ELSE Ok(SparseOf(W, sel))

\* S.dot(X) for a CSR matrix S and a dense X: only stored entries take part.
SDot(S, X) ==
    [i \in 1..Rows(S.V) |-> [j \in 1..Cols(X) |->
        SumTo([k \in 1..Cols(S.V) |->
                  IF k \in S.J[i] THEN Mul(S.V[i][k], X[k][j]) ELSE Zero],
              Cols(S.V))]]

\* S.todense()
Dense(S) == S.V
\* ------------------------------------------------------------------------
\* getWCSMSSM: cross-affinity matrix of two sets
\* ------------------------------------------------------------------------

\* Variant of IntOf that rounds a/b, a >= 0, to the nearest integer.
IntOf_Round(a, b) == (2 * a + b) \div (2 * b)

\* int(x) of the float x = a/b, b > 0: truncation toward zero.
IntOf(a, b) == IF a >= 0 THEN a \div b ELSE -((-a) \div b)

\* k1 = int(K*float(N)/(M+N)); k2 = K - k1
SplitK(K, N, M) == <<IntOf(K * N, M + N), K - IntOf(K * N, M + N)>>

\* The cross block WCSMAB (lines 49-56) for in-bounds k1, k2.
CrossAffinity(CSMAB, k1, k2, mu) ==
    LET N == Rows(CSMAB)
        M == Cols(CSMAB)
        CT == Transpose(CSMAB)
        c1 == SliceLen(k2, M)
        c2 == SliceLen(k1, N)
        MeanDist1 == [i \in 1..N |-> Mean(SmallestSum(CSMAB[i], c1), c1)]
        MeanDist2 == [j \in 1..M |-> Mean(SmallestSum(CT[j], c2), c2)]
        Eps == [i \in 1..N |-> [j \in 1..M |->
                   Div(Add(Add(MeanDist1[i], MeanDist2[j]), CSMAB[i][j]), Num(3))]]
    IN  [i \in 1..N |-> [j \in 1..M |-> Kernel(CSMAB[i][j], Eps[i][j], mu)]]

getWCSMSSM(SSMA, SSMB, CSMAB, K, mu) ==
    LET N == Rows(SSMA)
        M == Rows(SSMB)
        k1 == SplitK(K, N, M)[1]
        k2 == SplitK(K, N, M)[2]
        WSSMA == getW(SSMA, k1, mu)
        WSSMB == getW(SSMB, k2, mu)
    IN  IF WSSMA.err # "" THEN Raise(WSSMA.err)
        ELSE IF WSSMB.err # "" THEN Raise(WSSMB.err)
        ELSE IF ~KthInBounds(k2, M) \/ ~KthInBounds(k1, N) THEN Raise("ValueError")
        ELSE LET WCSMAB == CrossAffinity(CSMAB, k1, k2, mu)
             IN  Ok([i \in 1..(N + M) |-> [j \in 1..(N + M) |->
                        IF i <= N /\ j <= N THEN WSSMA.val[i][j]
                        ELSE IF i <= N THEN WCSMAB[i][j - N]
                        ELSE IF j <= N THEN WCSMAB[j][i - N]
                        ELSE WSSMB.val[i - N][j - N]]])
\* ------------------------------------------------------------------------
\* doSimilarityFusionWs: the steps of the cross-diffusion, on the heap
\* ------------------------------------------------------------------------

\* Variant of AllocP that normalizes W in place and returns W itself.
AllocP_InPlace(h, w) == [heap |-> [h EXCEPT ![w] = getP(@, FALSE)], ref |-> w]

\* getP(W): a new array; W is only read.
AllocP(h, w) == [heap |-> Append(h, getP(h[w], FALSE)), ref |-> Len(h) + 1]

\* np.array(P): a copy of P.
AllocCopy(h, p) == [heap |-> Append(h, h[p]), ref |-> Len(h) + 1]

\* np.zeros(P.shape)
AllocZeros(h, p) == [heap |-> Append(h, Zeros(Rows(h[p]))), ref |-> Len(h) + 1]

Alloc1(kind, h, src) ==
    IF kind = "P" THEN AllocP(h, src)
    ELSE IF kind = "copy" THEN AllocCopy(h, src)
    ELSE AllocZeros(h, src)

RECURSIVE AllocEach(_, _, _, _)
\* A list comprehension [f(X) for X in srcs], over srcs[1..k] in order.
AllocEach(kind, h, srcs, k) ==
    IF k = 0 THEN [heap |-> h, refs |-> <<>>]
    ELSE LET r == AllocEach(kind, h, srcs, k - 1)
             a == Alloc1(kind, r.heap, srcs[k])
         IN  [heap |-> a.heap, refs |-> Append(r.refs, a.ref)]

\* Lines 110-116: Ps, Ss, Pts and nextPts.  lists[1] is the list object first
\* bound to Pts, lists[2] the one bound to nextPts.  getS raises on the first
\* W when K is out of range.
SetupOp(h, ws, K, tie) ==
    LET m == Len(ws)
        ps == AllocEach("P", h, ws, m)
        ss == [k \in 1..m |->
                  getS(h[ws[k]], K, TieSelection(h[ws[k]], K, tie))]
        bad == \E k \in 1..m : ss[k].err # ""
        pts == AllocEach("copy", ps.heap, ps.refs, m)
        nx == AllocEach("zeros", pts.heap, pts.refs, m)
    IN  IF bad
        THEN [err |-> "ValueError", heap |-> ps.heap, Ps |-> ps.refs,
              Ss |-> <<>>, lists |-> <<>>]
        ELSE [err |-> "", heap |-> nx.heap, Ps |-> ps.refs,
              Ss |-> [k \in 1..m |-> ss[k].val], lists |-> <<pts.refs, nx.refs>>]

RECURSIVE AddOthers(_, _, _, _, _)
\* Lines 139-142: nextPts[i] += Pts[k] for k = 1..upto, k # i, in place on
\* the array a, each Pts[k] read from the heap as it is at that moment.
AddOthers(h, a, srcs, i, upto) ==
    IF upto = 0 THEN h
    ELSE LET g == AddOthers(h, a, srcs, i, upto - 1)
         IN  IF upto = i THEN g ELSE [g EXCEPT ![a] = MatAdd(@, g[srcs[upto]])]

\* Lines 152-153: S.dot(S.dot(X.T).T), a new array.
Propagate(S, X) == SDot(S, Transpose(SDot(S, Transpose(X))))

\* Lines 137-158, the body of the loop over measurements for measurement i.
\* pts and nxt are the list objects the variables Pts and nextPts refer to.
UpdateOp(h, L, pts, nxt, S, i, reg) ==
    LET N == Len(L[pts])
        a == L[nxt][i]
        h0 == [h EXCEPT ![a] = MatScale(@, Zero)]
        h1 == AddOthers(h0, a, L[pts], i, N)
        h2 == [h1 EXCEPT ![a] = MatDiv(@, Num(N - 1))]
        B == Propagate(S[i], h2[a])
        Breg == IF reg > 0 THEN MatAdd(B, MatScale(Eye(Rows(B)), Num(reg))) ELSE B
    IN  [heap |-> Append(h2, Breg),
         lists |-> [L EXCEPT ![nxt][i] = Len(h2) + 1],
         reads |-> [k \in 1..N |-> IF k = i THEN <<>> ELSE h0[L[pts][k]]]]

\* Variant of SweepsLeft that runs the body of the loop at least once.
SweepsLeft_AtLeastOne(t, NIters) == t < NIters \/ t = 0

\* Line 122, for it in range(NIters): whether a sweep follows t completed ones.
SweepsLeft(t, NIters) == t < NIters

\* Line 160: Pts = nextPts.  The variable Pts now refers to the very list
\* object nextPts refers to; nothing is copied.
RebindPts(pts, nxt) == nxt

\* Lines 163-166: FusedScores/N for the arrays refs = Pts.
Fuse(h, refs) ==
    LET N == Len(refs)
        RECURSIVE Acc(_)
        Acc(k) == IF k = 0 THEN Zeros(Rows(h[refs[1]]))
                  ELSE MatAdd(Acc(k - 1), h[refs[k]])
    IN  MatDiv(Acc(N), Num(N))

\* The one element of a set of one element: binds a step's outcome to its
\* value before the next step uses it.
TheOne(S) == CHOOSE x \in S : TRUE

RECURSIVE SweepOp(_, _, _, _, _, _, _)
\* Lines 136-158 for measurements k..N of one sweep, in order.
SweepOp(h, L, pts, nxt, S, k, reg) ==
    IF k > Len(L[pts]) THEN [heap |-> h, lists |-> L]
    ELSE TheOne({SweepOp(u.heap, u.lists, pts, nxt, S, k + 1, reg) :
                    u \in {UpdateOp(h, L, pts, nxt, S, k, reg)}})

RECURSIVE SweepsOp(_, _, _, _, _, _, _, _)
\* The loop of line 122 from t completed sweeps on, with line 160 after each.
SweepsOp(h, L, pts, nxt, S, t, NIters, reg) ==
    IF ~SweepsLeft(t, NIters) THEN [heap |-> h, lists |-> L, pts |-> pts]
    ELSE TheOne({SweepsOp(w.heap, w.lists, RebindPts(pts, nxt), nxt, S, t + 1, NIters, reg) :
                    w \in {SweepOp(h, L, pts, nxt, S, 1, reg)}})

\* doSimilarityFusionWs(Ws, K, NIters, reg) as a function of the values Ws.
FusionOf(WsVals, K, NIters, reg, tie) ==
    TheOne({IF st.err # "" THEN Raise(st.err)
            ELSE IF Len(WsVals) = 0 THEN Raise("IndexError")
            ELSE TheOne({Ok(Fuse(e.heap, e.lists[e.pts])) :
                            e \in {SweepsOp(st.heap, st.lists, 1, 2, st.Ss, 0, NIters, reg)}}) :
               st \in {SetupOp(WsVals, [k \in 1..Len(WsVals) |-> k], K, tie)}})

\* ------------------------------------------------------------------------
\* doSimilarityFusion: affinity matrices of the distance matrices first
\* ------------------------------------------------------------------------

RECURSIVE GetWsOp(_, _, _, _)
\* Line 171: Ws = [getW(D, K) for D in Scores], over Scores[1..k] in order;
\* the first getW that raises ends the comprehension.
GetWsOp(h, ds, K, k) ==
    IF k = 0 THEN [err |-> "", heap |-> h, refs |-> <<>>]
    ELSE LET r == GetWsOp(h, ds, K, k - 1)
             w == getWAt(r.heap, ds[k], K, Mu)
         IN  IF r.err # "" THEN r
             ELSE IF w.err # "" THEN [err |-> w.err, heap |-> w.heap, refs |-> r.refs]
             ELSE [err |-> "", heap |-> w.heap, refs |-> Append(r.refs, w.ref)]

\* ------------------------------------------------------------------------
\* Inputs
\* ------------------------------------------------------------------------

\* Largest matrix dimension N, largest number of measurements, largest NIters.
MaxDim == 3

MaxM == 2

MaxIters == 2

\* Largest NIters of a call on distance matrices (doSimilarityFusion): the
\* kernel's values make the denominators of the exact arithmetic grow faster.
MaxItersScores == 1

Dist(i, j) == IF i < j THEN j - i ELSE i - j

\* Affinity matrices of dimension n: a chain (the 0/1 neighbour graph of the
\* items in a row) and a ring (2 on the diagonal, 1 to the next and to the
\* previous item around a circle).
Chain(n) == [i \in 1..n |-> [j \in 1..n |-> Num(IF Dist(i, j) = 1 THEN 1 ELSE 0)]]

Ring(n) ==
    [i \in 1..n |-> [j \in 1..n |->
        Num(IF i = j THEN 2 ELSE IF Dist(i, j) \in {1, n - 1} THEN 1 ELSE 0)]]

AffPool(n) == {Chain(n), Ring(n)}

\* Distance matrices of dimension n: an asymmetric matrix (2 above the
\* diagonal, 0 below: every pair at distance 1 once symmetrized), and all
\* distances zero.
Skew(n) == [i \in 1..n |-> [j \in 1..n |-> Num(IF i < j THEN 2 ELSE 0)]]

Flat(n) == [i \in 1..n |-> [j \in 1..n |-> Zero]]

DistPool(n) == {Skew(n), Flat(n)}

Dims == {MaxDim}

\* ------------------------------------------------------------------------
\* State
\* ------------------------------------------------------------------------

VARIABLES
    heap,     \* the numpy arrays, by reference: heap[r] is the value of array r
    lists,    \* the list objects created at lines 115 and 116, each a tuple of references
    args,     \* the call: entry point, K, NIters, reg, and the caller's arrays as passed
    Ws,       \* references of the affinity matrices
    Ps,       \* references of the arrays of Ps
    Ss,       \* the CSR matrices of Ss
    Pts,      \* the list object the variable Pts refers to (1 or 2)
    nextPts,  \* the list object the variable nextPts refers to
    it,       \* sweeps completed
    cur,      \* the measurement the loop of line 136 is at (i of the source, from 1)
    pc,       \* "call", "fuse", "loop", "done", "error"; "pure" in the pure-function specifications
    result,   \* the returned FusedScores/N
    snap,     \* the values the arrays of Pts had when the running sweep started
    reads,    \* the values of Pts[k] the last update read
    fn,       \* the pure function applied
    arg,      \* its arguments
    out       \* its outcome

vars == <<heap, lists, args, Ws, Ps, Ss, Pts, nextPts, it, cur, pc, result, snap,
          reads, fn, arg, out>>

fusionVars == <<heap, lists, args, Ws, Ps, Ss, Pts, nextPts, it, cur, pc, result,
                snap, reads>>

pureVars == <<fn, arg, out>>

\* The number of measurements and the dimension of the call.
M == Len(args.inputs)

Dim == args.n

ValuesOf(h, refs) == [k \in 1..Len(refs) |-> h[refs[k]]]

InitCall(entry, n, inputs, K, NIters, reg, tie) ==
    /\ args = [entry |-> entry, n |-> n, inputs |-> inputs, K |-> K,
               NIters |-> NIters, reg |-> reg, tie |-> tie]
    /\ heap = inputs
    /\ Ws = IF entry = "Ws" THEN [k \in 1..Len(inputs) |-> k] ELSE <<>>
    /\ pc = IF entry = "Ws" THEN "fuse" ELSE "call"
    /\ lists = <<>>
    /\ Ps = <<>>
    /\ Ss = <<>>
    /\ Pts = 0
    /\ nextPts = 0
    /\ it = 0
    /\ cur = 0
    /\ result = <<>>
    /\ snap = <<>>
    /\ reads = <<>>

Init ==
    /\ \E n \in Dims, m \in 0..MaxM, reg \in {0, 1}, tie \in {"low", "high"} :
          \/ \E K \in (-1)..n, NIters \in 0..MaxIters, inputs \in [1..m -> AffPool(n)] :
                InitCall("Ws", n, inputs, K, NIters, reg, tie)
          \/ \E K \in (-2)..n, NIters \in 0..MaxItersScores,
                inputs \in [1..m -> DistPool(n)] :
                InitCall("Scores", n, inputs, K, NIters, reg, tie)
    /\ fn = ""
    /\ arg = <<>>
    /\ out = <<>>

\* doSimilarityFusion, line 171: the affinity matrices, or the exception of getW.
GetWs ==
    /\ pc = "call"
    /\ LET r == GetWsOp(heap, [k \in 1..M |-> k], args.K, M)
       IN  /\ heap' = r.heap
           /\ Ws' = r.refs
           /\ pc' = IF r.err # "" THEN "error" ELSE "fuse"
    /\ UNCHANGED <<lists, args, Ps, Ss, Pts, nextPts, it, cur, result, snap, reads>>
    /\ UNCHANGED pureVars

\* doSimilarityFusionWs, lines 110-120, or the exception of getS.
Setup ==
    /\ pc = "fuse"
    /\ LET st == SetupOp(heap, Ws, args.K, args.tie)
       IN  /\ heap' = st.heap
           /\ Ps' = st.Ps
           /\ Ss' = st.Ss
           /\ lists' = st.lists
           /\ IF st.err # ""
              THEN /\ pc' = "error"
                   /\ UNCHANGED <<Pts, nextPts, cur, snap>>
              ELSE /\ pc' = "loop"
                   /\ Pts' = 1
                   /\ nextPts' = 2
                   /\ cur' = 1
                   /\ snap' = ValuesOf(st.heap, st.lists[1])
    /\ UNCHANGED <<args, Ws, it, result, reads>>
    /\ UNCHANGED pureVars

\* Lines 136-158 for the current measurement of sweep it + 1.
Update ==
    /\ pc = "loop"
    /\ SweepsLeft(it, args.NIters)
    /\ cur <= Len(lists[Pts])
    /\ LET u == UpdateOp(heap, lists, Pts, nextPts, Ss, cur, args.reg)
       IN  /\ heap' = u.heap
           /\ lists' = u.lists
           /\ reads' = u.reads
    /\ cur' = cur + 1
    /\ UNCHANGED <<args, Ws, Ps, Ss, Pts, nextPts, it, pc, result, snap>>
    /\ UNCHANGED pureVars

\* Line 160, the end of a sweep.
EndSweep ==
    /\ pc = "loop"
    /\ SweepsLeft(it, args.NIters)
    /\ cur > Len(lists[Pts])
    /\ Pts' = RebindPts(Pts, nextPts)
    /\ it' = it + 1
    /\ cur' = 1
    /\ snap' = ValuesOf(heap, lists[RebindPts(Pts, nextPts)])
    /\ reads' = <<>>
    /\ UNCHANGED <<heap, lists, args, Ws, Ps, Ss, nextPts, pc, result>>
    /\ UNCHANGED pureVars

\* Lines 163-166: the fused matrix, or IndexError at Pts[0] for an empty list.
Return ==
    /\ pc = "loop"
    /\ ~SweepsLeft(it, args.NIters)
    /\ IF Len(lists[Pts]) = 0
       THEN /\ pc' = "error"
            /\ UNCHANGED result
       ELSE /\ pc' = "done"
            /\ result' = Fuse(heap, lists[Pts])
    /\ UNCHANGED <<heap, lists, args, Ws, Ps, Ss, Pts, nextPts, it, cur, snap, reads>>
    /\ UNCHANGED pureVars

Next == GetWs \/ Setup \/ Update \/ EndSweep \/ Return

Spec == Init /\ [][Next]_vars
\* ------------------------------------------------------------------------
\* The functions on their own: getP, getS, getW, getWCSMSSM applied once
\* ------------------------------------------------------------------------

\* Entries of the matrices the functions are applied to.
Entries == {0, 1, 2}

Rot(k, n) == ((k + n) % n) + 1

\* The matrix whose row i is r turned i - 1 places to the right: every row
\* holds the entries of r, and D[i][i] = r[1].
Circulant(r) ==
    [i \in 1..Len(r) |-> [j \in 1..Len(r) |-> Num(r[Rot(j - i, Len(r))])]]

\* X with its first row set to zero.
ZeroFirstRow(X) ==
    [i \in 1..Rows(X) |-> [j \in 1..Cols(X) |-> IF i = 1 THEN Zero ELSE X[i][j]]]

\* Nonnegative matrices of dimension n for getP and getS.
TransitionInputs(n) ==
    {Circulant(r) : r \in [1..n -> Entries]}
        \cup {ZeroFirstRow(Circulant(r)) : r \in [1..n -> Entries]}

\* The distances of n items in a row.
Line(n) == [i \in 1..n |-> [j \in 1..n |-> Num(Dist(i, j))]]

\* Nonnegative distance matrices of dimension n for getW, symmetric or not,
\* with any diagonal.
DistanceInputs(n) == {Circulant(r) : r \in [1..n -> Entries]} \cup {Line(n)}

\* Cross distances between n items and m items.
Cross(n, m) == [i \in 1..n |-> [j \in 1..m |-> Num(1 + Dist(i, j))]]

\* Sizes and budgets of the calls of getWCSMSSM.
CrossSizes == 1..(MaxDim + 2)

InitPure(f, a) ==
    /\ fn = f
    /\ arg = a
    /\ out = <<>>
    /\ pc = "pure"
    /\ heap = <<>>
    /\ lists = <<>>
    /\ args = <<>>
    /\ Ws = <<>>
    /\ Ps = <<>>
    /\ Ss = <<>>
    /\ Pts = 0
    /\ nextPts = 0
    /\ it = 0
    /\ cur = 0
    /\ result = <<>>
    /\ snap = <<>>
    /\ reads = <<>>

Returned == pc = "returned"

InitT ==
    \E W \in TransitionInputs(MaxDim) :
        \/ \E d \in BOOLEAN : InitPure("getP", [W |-> W, diagRegularize |-> d])
        \/ \E K \in 0..(MaxDim - 1) : InitPure("getS", [W |-> W, K |-> K])

ApplyGetP ==
    /\ pc = "pure"
    /\ fn = "getP"
    /\ out' = Ok(getP(arg.W, arg.diagRegularize))
    /\ pc' = "returned"
    /\ UNCHANGED <<fn, arg, heap, lists, args, Ws, Ps, Ss, Pts, nextPts, it, cur, result,
                   snap, reads>>

\* getS with any of the column sets argpartition may keep.
ApplyGetS ==
    /\ pc = "pure"
    /\ fn = "getS"
    /\ \E sel \in Selections(arg.W, arg.K) : out' = getS(arg.W, arg.K, sel)
    /\ pc' = "returned"
    /\ UNCHANGED <<fn, arg, heap, lists, args, Ws, Ps, Ss, Pts, nextPts, it, cur, result,
                   snap, reads>>

NextT == ApplyGetP \/ ApplyGetS

SpecT == InitT /\ [][NextT]_vars

InitW ==
    \/ \E D \in DistanceInputs(MaxDim), K \in (-2)..MaxDim :
          InitPure("getW", [D |-> D, K |-> K])
    \/ \E N \in CrossSizes, Mb \in CrossSizes, K \in 0..(MaxDim + 2) :
          InitPure("getWCSMSSM",
                   [SSMA |-> Line(N), SSMB |-> Line(Mb), CSMAB |-> Cross(N, Mb), K |-> K])

ApplyGetW ==
    /\ pc = "pure"
    /\ fn = "getW"
    /\ out' = getW(arg.D, arg.K, Mu)
    /\ pc' = "returned"
    /\ UNCHANGED <<fn, arg, heap, lists, args, Ws, Ps, Ss, Pts, nextPts, it, cur, result,
                   snap, reads>>

\* The outcome also holds the split (k1, k2) of line 43-44, computed before
\* anything can raise.
ApplyGetWCSMSSM ==
    /\ pc = "pure"
    /\ fn = "getWCSMSSM"
    /\ out' = [split |-> SplitK(arg.K, Rows(arg.SSMA), Rows(arg.SSMB)),
               res |-> getWCSMSSM(arg.SSMA, arg.SSMB, arg.CSMAB, arg.K, Mu)]
    /\ pc' = "returned"
    /\ UNCHANGED <<fn, arg, heap, lists, args, Ws, Ps, Ss, Pts, nextPts, it, cur, result,
                   snap, reads>>

NextW == ApplyGetW \/ ApplyGetWCSMSSM

SpecW == InitW /\ [][NextW]_vars
\* ------------------------------------------------------------------------
\* Properties of getP, getS, getW and getWCSMSSM
\* ------------------------------------------------------------------------

\* a == b as numpy compares floats: NaN equals nothing.
FEq(a, b) == ~IsNaN(a) /\ ~IsNaN(b) /\ a = b

RowIsZero(row) == \A j \in 1..Len(row) : row[j] = Zero

NonZeros(row) == {j \in 1..Len(row) : row[j] # Zero}

\* Column j holds one of the K largest entries of row: fewer than K entries
\* of the row are larger.
AmongLargest(row, j, K) ==
    Cardinality({b \in 1..Len(row) : Lt(row[j], row[b])}) < K

\* C8: every row of getP(W, diagRegularize=False) sums to 1, except that an
\* all-zero row of W gives an all-zero row.
C8_RowsSumToOne ==
    (Returned /\ fn = "getP" /\ ~arg.diagRegularize) =>
        /\ out.err = ""
        /\ \A r \in 1..Rows(arg.W) :
              IF RowIsZero(arg.W[r]) THEN RowIsZero(out.val[r])
              ELSE SumTo(out.val[r], Cols(arg.W)) = One

\* getP has been applied to a matrix with an all-zero row and a row of
\* several nonzero entries.
C8_Witness ==
    /\ Returned
    /\ fn = "getP"
    /\ ~arg.diagRegularize
    /\ \E r \in 1..Rows(arg.W) : RowIsZero(arg.W[r])
    /\ \E r \in 1..Rows(arg.W) : Cardinality(NonZeros(out.val[r])) >= 2

\* C7 as claimed, for 1 <= K < N: every row of getS(W, K) has at most K
\* nonzero entries, at positions of K largest entries of the row of W, and
\* they sum to 1.
C7_AsClaimed ==
    (Returned /\ fn = "getS" /\ arg.K >= 1) =>
        /\ out.err = ""
        /\ \A r \in 1..Rows(arg.W) :
              /\ Cardinality(NonZeros(out.val.V[r])) <= arg.K
              /\ \A j \in NonZeros(out.val.V[r]) : AmongLargest(arg.W[r], j, arg.K)
              /\ SumTo(out.val.V[r], Cols(arg.W)) = One

\* C7 as amended: every row of getS(W, K) has at most K nonzero entries, at
\* positions of K largest entries of the row of W, and they sum to 1 unless
\* the K largest entries of the row are all zero (K = 0, or an all-zero row
\* of W), when the row of S is all zero.
C7_LocalRows ==
    (Returned /\ fn = "getS") =>
        /\ out.err = ""
        /\ \A r \in 1..Rows(arg.W) :
              /\ Cardinality(NonZeros(out.val.V[r])) <= arg.K
              /\ \A j \in NonZeros(out.val.V[r]) : AmongLargest(arg.W[r], j, arg.K)
              /\ IF arg.K = 0 \/ RowIsZero(arg.W[r])
                 THEN RowIsZero(out.val.V[r])
                 ELSE SumTo(out.val.V[r], Cols(arg.W)) = One

\* getS has been applied with K >= 2 to a matrix with an all-zero row and a
\* row that keeps K nonzero entries and drops a nonzero one.
C7_Witness ==
    /\ Returned
    /\ fn = "getS"
    /\ arg.K >= 2
    /\ \E r \in 1..Rows(arg.W) : RowIsZero(arg.W[r])
    /\ \E r \in 1..Rows(arg.W) :
          /\ Cardinality(NonZeros(out.val.V[r])) = arg.K
          /\ Cardinality(NonZeros(arg.W[r])) > arg.K

\* The K of a getW call is in the valid range [1, N-2].
ValidK == arg.K >= 1 /\ arg.K <= Rows(arg.D) - 2

\* The number of zeros of row r of DSym, the zeroed diagonal included.
ZeroDistances(D, r) ==
    1 + Cardinality({j \in 1..Rows(D) : j # r /\ Add(D[r][j], D[j][r]) = Zero})

\* No two items of D are at distance 0 of each other.
Separated(D) == \A r \in 1..Rows(D) : ZeroDistances(D, r) = 1

\* C6 as claimed, for D without zero distances between items: W of getW is
\* symmetric, W[i,j] == W[j,i], and has a zero diagonal, W[i,i] == 0.
C6_AsClaimed ==
    (Returned /\ fn = "getW" /\ ValidK /\ Separated(arg.D)) =>
        /\ out.err = ""
        /\ \A r \in 1..Rows(arg.D) : \A j \in 1..Rows(arg.D) :
              FEq(out.val[r][j], out.val[j][r])
        /\ \A r \in 1..Rows(arg.D) : FEq(out.val[r][r], Zero)

\* C6 as amended: for a nonnegative D and valid K, W[i,j] and W[j,i] are the
\* same value (both NaN where Eps[i,j] is 0), and the diagonal is never 0:
\* W[i,i] is 1, or NaN when the K nearest neighbours of i are all at distance
\* 0 (then Eps[i,i] = 0 and the exponent is 0/0).
C6_SymmetricUnitDiagonal ==
    (Returned /\ fn = "getW" /\ ValidK) =>
        /\ out.err = ""
        /\ \A r \in 1..Rows(arg.D) : \A j \in 1..Rows(arg.D) :
              out.val[r][j] = out.val[j][r]
        /\ \A r \in 1..Rows(arg.D) :
              out.val[r][r] = IF ZeroDistances(arg.D, r) >= arg.K + 1 THEN NaN ELSE One

\* getW has been applied with a valid K to an asymmetric D with a nonzero
\* diagonal, and W has an entry strictly between 0 and 1.
C6_Witness ==
    /\ Returned
    /\ fn = "getW"
    /\ ValidK
    /\ arg.D[1][2] # arg.D[2][1]
    /\ arg.D[1][1] # Zero
    /\ Lt(Zero, out.val[1][2])
    /\ Lt(out.val[1][2], One)
    /\ out.val[1][1] = One

\* C9 as claimed, for the calls that return a matrix: k1 is K*N/(N+M) rounded
\* to the nearest integer, and k2 = K - k1.
C9_AsClaimed ==
    (Returned /\ fn = "getWCSMSSM" /\ out.res.err = "") =>
        LET N == Rows(arg.SSMA)
            Mb == Rows(arg.SSMB)
            k1 == out.split[1]
            k2 == out.split[2]
        IN  /\ 2 * Abs(arg.K * N - k1 * (N + Mb)) <= N + Mb
            /\ k1 + k2 = arg.K

\* C9 as amended: for K >= 0, k1 is K*N/(N+M) rounded down (int() truncates),
\* and k2 = K - k1, so that k1 + k2 = K.
C9_SplitTruncates ==
    (Returned /\ fn = "getWCSMSSM") =>
        LET N == Rows(arg.SSMA)
            Mb == Rows(arg.SSMB)
            k1 == out.split[1]
            k2 == out.split[2]
        IN  /\ k1 * (N + Mb) <= arg.K * N
            /\ arg.K * N < (k1 + 1) * (N + Mb)
            /\ k1 + k2 = arg.K

\* getWCSMSSM has returned a matrix for a split whose fraction K*N/(N+M) is
\* above one half past k1.
C9_Witness ==
    /\ Returned
    /\ fn = "getWCSMSSM"
    /\ out.res.err = ""
    /\ 2 * ((arg.K * Rows(arg.SSMA)) % (Rows(arg.SSMA) + Rows(arg.SSMB)))
          > Rows(arg.SSMA) + Rows(arg.SSMB)
\* ------------------------------------------------------------------------
\* Properties of doSimilarityFusionWs and doSimilarityFusion
\* ------------------------------------------------------------------------

\* C1: every update of a sweep reads, for every other measurement k, the
\* value Pts[k] had when the sweep started.
C1_SynchronousSweep ==
    \A k \in 1..Len(reads) : reads[k] # <<>> => reads[k] = snap[k]

\* The caller's list in the order p.
Permuted(p) == [k \in 1..M |-> args.inputs[p[k]]]

\* C2: the matrix returned for a list of m >= 2 affinity matrices is the
\* matrix returned for every permutation of the list, with the same K,
\* NIters and reg.
C2_OrderInvariant ==
    (pc = "done" /\ args.entry = "Ws" /\ M >= 2) =>
        \A p \in Permutations(1..M) :
            FusionOf(Permuted(p), args.K, args.NIters, args.reg, args.tie) = Ok(result)

\* (sum over k of getP(W_k)) / m
AverageP(W) ==
    [r \in 1..Rows(W[1]) |-> [j \in 1..Rows(W[1]) |->
        Div(SumTo([k \in 1..Len(W) |-> getP(W[k], FALSE)[r][j]], Len(W)), Num(Len(W)))]]

\* C3: with NIters = 0 no sweep is made and the matrix returned is the
\* unweighted average of the getP(W_i).
C3_ZeroItersAverage ==
    (pc = "done" /\ args.NIters = 0) =>
        /\ it = 0
        /\ reads = <<>>
        /\ result = AverageP(ValuesOf(heap, Ws))

\* A call on two different affinity matrices with NIters = 0 has returned.
C3_Witness ==
    /\ pc = "done"
    /\ args.entry = "Ws"
    /\ args.NIters = 0
    /\ M >= 2
    /\ args.inputs[1] # args.inputs[2]

\* C4: doSimilarityFusion on a single distance matrix (and a valid K) never
\* returns a fused matrix.
C4_SingleMeasurementRejected ==
    (pc = "done" /\ args.entry = "Scores" /\ args.K >= 1 /\ args.K <= Dim - 2) => M # 1

\* C5: doSimilarityFusion on two or more distance matrices with K outside
\* [1, N-2] never returns a fused matrix.
C5_BadKRejected ==
    (pc = "done" /\ args.entry = "Scores" /\ M >= 2) =>
        (args.K >= 1 /\ args.K <= Dim - 2)

\* C10: the arrays the caller passed keep their values throughout the call,
\* and every step of the loop leaves the W_i and the S_i as they are.
C10_InputsAndFiltersKept ==
    /\ [](pc # "pure" => \A r \in 1..M : heap[r] = args.inputs[r])
    /\ [][pc = "loop" =>
            /\ Ss' = Ss
            /\ \A k \in 1..Len(Ws) : heap'[Ws[k]] = heap[Ws[k]]]_vars

\* A call on two or more affinity matrices has returned after at least two
\* sweeps, its states no longer equal to the initial getP(W_i).
C10_Witness ==
    /\ pc = "done"
    /\ args.entry = "Ws"
    /\ M >= 2
    /\ it >= 2
    /\ \E k \in 1..M : heap[lists[Pts][k]] # heap[Ps[k]]

====
